---- MODULE Spec2Model ----
(***************************************************************************)
(* Payment-gated callback correlation of the x402 Luma event search /      *)
(* summariser bot: the two pending registries and the pagination map       *)
(* (pending.ts), the expiry reaper, the Discord and Telegram callback      *)
(* handlers and the payment gate of the HTTP server (index.ts).            *)
(*                                                                         *)
(* Time is counted in ticks of 15 minutes: the pending TTL (30 min) is 2   *)
(* ticks, the reaper interval (30 min) 2 ticks, the pagination expiry      *)
(* (1 h) 4 ticks.                                                          *)
(***************************************************************************)
EXTENDS Integers, Sequences, FiniteSets, TLC

\* ------------------------------------------------------------------ bounds

\* Last value of the clock.
MaxTime == 3
\* Callback requests (deliveries) that arrive in one behaviour.
NumCb == 2
\* Pending entries stored in one behaviour.
MaxStores == 2
\* Requests the payment gate serves in one behaviour.
MaxGateCalls == 1
\* Commands the intake handlers take in one behaviour.
MaxCommands == 2
\* Words of a Telegram command after the command itself.
MaxWords == 3
\* /more commands that arrive in one behaviour.
NumMore == 2
\* Last value of the clock where pagination entries live long enough to expire.
MaxSearchTime == 5
\* Lines of a summary text.
MaxLines == 3

\* -------------------------------------------------------- program constants

\* PAYMENT_CALLBACK_EXPIRY_MS (./constants), 30 minutes, in ticks.
PAYMENT_CALLBACK_EXPIRY == 2
\* setInterval(..., 30 * 60 * 1000), in ticks.
REAPER_INTERVAL == 2
\* Date.now() + 60 * 60 * 1000, in ticks.
SEARCH_EXPIRY == 4
\* state.offset + 5, slice(nextOffset, nextOffset + 5)
PAGE_SIZE == 5

\* ------------------------------------------------------------------- values

Tokens == {"t1", "t2"}
Chats == {1}
CbIds == 1..NumCb

\* What a callback request carries as its token: nothing, a raw token, the
\* token as encodeURIComponent left it, or a string with a stray "%".
WireTokens ==
  {<<"missing", "">>, <<"malformed", "%">>}
    \cup {<<k, t>> : k \in {"raw", "enc"}, t \in Tokens}

\* decodeURIComponent: a raw token (no "%" in it) and its encoded form both
\* decode to the token; a stray "%" throws URIError.
decodeURIComponent(w) ==
  IF w[1] = "malformed" THEN [threw |-> TRUE, value |-> ""]
  ELSE [threw |-> FALSE, value |-> w[2]]

\* The shapes of `result` a callback request carries:
\*   none     no output text, no events
\*   text     a summary / formattedMessage, no events array
\*   evEmpty  a formattedMessage and events = []
\*   evSome   a formattedMessage and a non-empty events array
Results == {"none", "text", "evEmpty", "evSome"}

\* A result whose summary / formattedMessage is there but is no string (a
\* number, an object): replace and trim are not functions of it.
NonText == "nonText"

\* A slot of a registry Map: the entry stored under a token, or nothing.
\* chatId and topic are Telegram's (topic "" = undefined, a summarise entry);
\* eid names the stored entry (one per set()), it is not a field of the code.
NoEntry ==
  [present |-> FALSE, expiresAt |-> 0, paymentMessageId |-> FALSE,
   chatId |-> 0, topic |-> "", eid |-> 0]

\* events is the length of the stored array; from names the pending entry
\* whose delivery stored the object (it is not a field of the code).
NoSearch == [present |-> FALSE, events |-> 0, topic |-> "", offset |-> 0,
             expiresAt |-> 0, from |-> 0]

\* The lengths of a non-empty events array: less than a page, two full pages,
\* two pages and one event.
EventCounts == {3, 10, 11}

\* The length of the events array where only its being non-empty matters.
SomeEvents == 6

MoreIds == 1..NumMore

\* A /more that has not arrived yet. held names the SearchState object the
\* handler read (0: none), seen its offset as read, total its length; lo and
\* hi bound the slice events.slice(lo, hi) of the reply; at is the clock when
\* the command arrived and wrote whether the handler's update reached the
\* object the Map holds (the last two are not fields of the code).
IdleMore ==
  [pc |-> "idle", chat |-> 0, reply |-> "none", held |-> 0, seen |-> 0,
   total |-> 0, nextOffset |-> 0, lo |-> 0, hi |-> 0,
   wrote |-> FALSE]

\* No text being cleaned.
IdleClean ==
  [pc |-> "idle", platform |-> "none", input |-> <<>>, once |-> <<>>,
   twice |-> <<>>, posted |-> <<>>]

\* A callback request that has not arrived yet. post, edit and retry are the
\* three platform requests a delivery can make: the result post and the prompt
\* clean-up of the raced task, and the post of the delayed retry. takenAt and
\* sweptAt record the clock and the last sweep as they were when the request
\* removed its entry (they are not fields of the code).
IdleCb ==
  [pc |-> "idle", platform |-> "none", wire |-> <<"missing", "">>,
   result |-> "none", token |-> "", data |-> NoEntry, post |-> "none",
   edit |-> "none", retry |-> "none", resp |-> 0, takenAt |-> 0,
   sweptAt |-> 0]

\* The entrypoints the gate fronts (the last path segment before /invoke).
Endpoints == {"summarise%20chat", "search%20luma%20events"}

\* The X-PAYMENT header of a gate request: absent, not decodable, decodable
\* but matching no requirement, or decodable and matching.
Proofs == {"none", "malformed", "mismatch", "good"}

\* The statuses the worker (app.fetch) answers with.
WorkerStatuses == {200, 302, 400, 500}

\* The one requirement the gate builds for a request.
PaymentRequirement(endpoint) ==
  [scheme |-> "exact", resource |-> endpoint, payTo |-> "PAY_TO",
   maxAmountRequired |-> "50000", maxTimeoutSeconds |-> 300,
   network |-> "base", asset |-> "USDC"]

\* No gate invocation in progress. payFor is the token of the pay page the
\* request comes from (not a field of the code); cbParam is the
\* discord_callback query parameter.
IdleGate ==
  [pc |-> "idle", endpoint |-> "", proof |-> "none", payFor |-> "",
   cbParam |-> <<"missing", "">>, verification |-> "none", workerCalls |-> 0,
   workerStatus |-> 0, settleCalls |-> 0, settlement |-> "none", status |-> 0,
   accepts |-> <<>>, error |-> "", receipt |-> FALSE, cbReq |-> 0,
   run |-> 0]

\* The words of a Telegram command after the command itself.
Words == {"on", "in", "ai"}
WordSeqs == UNION {[1..n -> Words] : n \in 0..MaxWords}

\* ctx.message.text split at white space (text.trim().split(/\s+/)).
TelegramTexts ==
  {<<"/summarise">> \o a : a \in {<<>>, <<"60">>, <<"0">>, <<"abc">>}}
    \cup {<<"/search_events">> \o w : w \in WordSeqs}

\* The minutes option of a Discord summarise command.
LookbackValues == {"absent", "60", "0", "abc"}

\* What the entrypoint answers the unpaid request of the Discord background
\* task: a status, or 0 when the fetch or the reading of its JSON body throws.
EntrypointAnswers == {0, 200, 201, 400, 402, 500}

\* No command being taken in. text, lookback and channel are the command as
\* it arrived; response is what handleDiscordInteraction returned to Discord;
\* awaited counts the network requests the handler awaited before it returned;
\* prompts, errors and visible count the payment prompts the platform
\* accepted, the error messages the command sent and the messages of the
\* command the platform accepted; stored names the entry the command stored,
\* storedAt the clock at that time and fresh whether the token had no entry
\* then (the counts and these three are not fields of the code); publicKey is
\* whether DISCORD_PUBLIC_KEY is set and signature what the signature headers
\* of the interaction held; shown is whether the platform has put the payment
\* prompt in the conversation.
IdleIntake ==
  [pc |-> "idle", platform |-> "none", kind |-> "none", token |-> "",
   chat |-> 0, topic |-> "", text |-> <<>>, lookback |-> "absent",
   channel |-> FALSE, response |-> "none", awaited |-> 0, prompts |-> 0,
   promptId |-> FALSE, errors |-> 0, visible |-> 0, stored |-> 0,
   storedAt |-> 0, fresh |-> FALSE, run |-> 0, publicKey |-> FALSE,
   signature |-> "none", shown |-> FALSE]

VARIABLES
  now,                      \* Date.now(), in ticks
  sweepDue,                 \* when the reaper's interval timer is next due
  lastSweep,                \* the time of the last sweep (0: none yet)
  pendingDiscordCallbacks,  \* Map token -> DiscordCallbackData
  pendingTelegramCallbacks, \* Map token -> TelegramCallbackData
  searchState,              \* Map chatId -> SearchState
  botToken,                 \* process.env.TELEGRAM_BOT_TOKEN is set
  stores,                   \* entries stored so far (names the next eid)
  minted,                   \* the tokens the Telegram bot has minted
  cb,                       \* the callback requests, by request
  gate,                     \* the payment gate's invocation in progress
  verifiedFor,              \* the tokens whose payment the facilitator verified
  intake,                   \* the command being taken in
  more,                     \* the /more commands, by command
  clean                     \* a summary text under the cleaning chain

vars ==
  <<now, sweepDue, lastSweep, pendingDiscordCallbacks, pendingTelegramCallbacks,
    searchState, botToken, stores, minted, cb, gate, verifiedFor, intake, more, clean>>

registries == <<pendingDiscordCallbacks, pendingTelegramCallbacks>>

Init ==
  /\ now = 0
  /\ sweepDue = REAPER_INTERVAL
  /\ lastSweep = 0
  /\ pendingDiscordCallbacks = [t \in Tokens |-> NoEntry]
  /\ pendingTelegramCallbacks = [t \in Tokens |-> NoEntry]
  /\ searchState = [c \in Chats |-> NoSearch]
  /\ botToken \in BOOLEAN
  /\ stores = 0
  /\ minted = {}
  /\ cb = [c \in CbIds |-> IdleCb]
  /\ gate = IdleGate
  /\ verifiedFor = {}
  /\ intake = IdleIntake
  /\ more = [m \in MoreIds |-> IdleMore]
  /\ clean = IdleClean

\* -------------------------------------------------------------------- clock

Tick ==
  /\ now < MaxTime
  /\ now' = now + 1
  /\ UNCHANGED <<sweepDue, lastSweep, registries, searchState, botToken, stores,
                 minted, cb, gate, verifiedFor, intake, more, clean>>

\* ------------------------------------------------------------------- reaper

\* A sweep that removes nothing.
SweptNothing(reg, at) == reg

\* A sweep that also removes the entries expiring at the time of the sweep.
SweptThrough(reg, at) ==
  [t \in Tokens |->
     IF reg[t].present /\ reg[t].expiresAt <= at THEN NoEntry ELSE reg[t]]

\* A sweep with the comparison turned round: it removes the live entries.
SweptLive(reg, at) ==
  [t \in Tokens |->
     IF reg[t].present /\ reg[t].expiresAt > at THEN NoEntry ELSE reg[t]]

\* The entries a sweep at time `at` keeps.
Swept(reg, at) ==
  [t \in Tokens |->
     IF reg[t].present /\ reg[t].expiresAt < at THEN NoEntry ELSE reg[t]]

\* The interval callback: one synchronous pass over both registries.
Sweep ==
  /\ now >= sweepDue
  /\ pendingDiscordCallbacks' = Swept(pendingDiscordCallbacks, now)
  /\ pendingTelegramCallbacks' = Swept(pendingTelegramCallbacks, now)
  /\ lastSweep' = now
  /\ sweepDue' = sweepDue + REAPER_INTERVAL
  /\ UNCHANGED <<now, searchState, botToken, stores, minted, cb, gate, verifiedFor, intake, more, clean>>

\* ------------------------------------------------------------------- intake

\* What the Discord background task stores once the payment prompt is sent:
\* the entry goes under interaction.token, the token Discord's request named.
DiscordEntry(hasPrompt) ==
  [present |-> TRUE, expiresAt |-> now + PAYMENT_CALLBACK_EXPIRY,
   paymentMessageId |-> hasPrompt, chatId |-> 0, topic |-> "",
   eid |-> stores + 1]

DiscordStore(t, hasPrompt) ==
  /\ stores < MaxStores
  /\ pendingDiscordCallbacks' =
       [pendingDiscordCallbacks EXCEPT ![t] = DiscordEntry(hasPrompt)]
  /\ stores' = stores + 1
  /\ UNCHANGED <<now, sweepDue, lastSweep, pendingTelegramCallbacks, searchState,
                 botToken, minted, cb, gate, verifiedFor, intake, more, clean>>

\* What /summarise (topic "") and /search_events store: the token is minted
\* from the chat id, the time and a random UUID, so it is a new one.
TelegramEntry(chat, topic) ==
  [present |-> TRUE, expiresAt |-> now + PAYMENT_CALLBACK_EXPIRY,
   paymentMessageId |-> TRUE, chatId |-> chat, topic |-> topic,
   eid |-> stores + 1]

TelegramStore(t, chat, topic) ==
  /\ botToken
  /\ stores < MaxStores
  /\ t \notin minted
  /\ minted' = minted \cup {t}
  /\ pendingTelegramCallbacks' =
       [pendingTelegramCallbacks EXCEPT ![t] = TelegramEntry(chat, topic)]
  /\ stores' = stores + 1
  /\ UNCHANGED <<now, sweepDue, lastSweep, pendingDiscordCallbacks, searchState,
                 botToken, cb, gate, verifiedFor, intake, more, clean>>

\* ---------------------------------------------------------- command handlers

\* validateLookback (./lookback): an error for minutes that do not parse or are
\* out of range, the minutes otherwise.
validateLookback(v) ==
  IF v = "60" THEN [error |-> FALSE, minutes |-> 60]
  ELSE [error |-> TRUE, minutes |-> 0]

\* An extractLookback that falls back to the default on a bad argument.
extractLookbackLenient(parts) == [error |-> FALSE, minutes |-> 60]

\* extractLookback: no argument is the default, else the argument validated.
extractLookback(parts) ==
  IF Len(parts) < 2 THEN [error |-> FALSE, minutes |-> 60]
  ELSE validateLookback(parts[2])

RECURSIVE JoinWords(_)
\* parts.join(" ")
JoinWords(parts) ==
  IF Len(parts) = 0 THEN ""
  ELSE IF Len(parts) = 1 THEN parts[1]
  ELSE parts[1] \o " " \o JoinWords(Tail(parts))

\* The index of the first part that is w (0: none; the code's -1).
FirstIndex(parts, w) ==
  IF \E i \in 1..Len(parts) : parts[i] = w
  THEN CHOOSE i \in 1..Len(parts) :
         parts[i] = w /\ \A j \in 1..(i - 1) : parts[j] # w
  ELSE 0

\* parseSearchEventsCommand: the topic is what stands between the first "on"
\* and the first "in" (or the end), the location what follows the first "in".
parseSearchEventsCommand(parts) ==
  LET onIndex == FirstIndex(parts, "on")
      inIndex == FirstIndex(parts, "in")
      topicEnd == IF inIndex # 0 THEN inIndex ELSE Len(parts) + 1
      topic == JoinWords(SubSeq(parts, onIndex + 1, topicEnd - 1))
      location == IF inIndex # 0 /\ inIndex < Len(parts)
                  THEN JoinWords(SubSeq(parts, inIndex + 1, Len(parts)))
                  ELSE ""
      usage == [error |-> TRUE, topic |-> "", location |-> ""]
  IN IF Len(parts) < 3 THEN usage
     ELSE IF onIndex = 0 THEN usage
     ELSE IF topic = "" THEN usage
     ELSE [error |-> FALSE, topic |-> topic, location |-> location]

\* The signature headers of an interaction: absent, not a signature of the
\* body under the application's key, or one.
Signatures == {"missing", "invalid", "valid"}

\* The check at the head of handleDiscordInteraction: with DISCORD_PUBLIC_KEY
\* set the headers must be there and verifyDiscordRequest must accept them;
\* without it nothing is checked.
SignatureCheck(key, sig) ==
  IF key /\ sig # "valid" THEN "reject" ELSE "pass"

\* handleDiscordInteraction up to its return: the signature check, PING, the
\* validation of a summarise command, and for a valid one the deferred
\* response, the background task having issued its request to the entrypoint.
\* DISCORD_PUBLIC_KEY is read once, at start-up: an interaction sees the key
\* the one before it saw.
DiscordInteraction(t, key, sig, kind, lookback, channel) ==
  LET i == [IdleIntake EXCEPT !.platform = "discord", !.kind = kind,
                              !.token = t, !.lookback = lookback,
                              !.channel = channel, !.run = intake.run + 1,
                              !.publicKey = key, !.signature = sig]
      auth == SignatureCheck(key, sig)
      v == validateLookback(IF lookback = "absent" THEN "60" ELSE lookback)
  IN /\ intake.pc \in {"idle", "done"}
     /\ intake.run < MaxCommands
     /\ (intake.platform = "discord" => key = intake.publicKey)
     /\ intake' =
          CASE auth = "reject" -> [i EXCEPT !.pc = "done", !.response = "401"]
            [] auth # "reject" /\ kind = "ping" ->
                 [i EXCEPT !.pc = "done", !.response = "pong"]
            [] auth # "reject" /\ kind = "other" ->
                 [i EXCEPT !.pc = "done", !.response = "400"]
            [] OTHER ->
                 IF v.error
                 THEN [i EXCEPT !.pc = "done", !.response = "ephemeral",
                                !.errors = 1, !.visible = 1]
                 ELSE IF ~channel
                 THEN [i EXCEPT !.pc = "missingChannel", !.errors = 1,
                                !.awaited = 1]
                 ELSE [i EXCEPT !.pc = "entrypoint", !.response = "deferred"]
     /\ UNCHANGED <<now, sweepDue, lastSweep, registries, searchState, botToken,
                    stores, minted, cb, gate, verifiedFor, more, clean>>

\* The follow-up for a missing channel_id is answered, and only then does the
\* handler return: 400, or 500 from the outer catch when the fetch threw.
DiscordMissingChannelAnswered(outcome) ==
  /\ intake.pc = "missingChannel"
  /\ intake' =
       [intake EXCEPT !.pc = "done",
                      !.response = IF outcome = "threw" THEN "500" ELSE "400",
                      !.visible = IF outcome = "ok" THEN @ + 1 ELSE @]
  /\ UNCHANGED <<now, sweepDue, lastSweep, registries, searchState, botToken,
                 stores, minted, cb, gate, verifiedFor, more, clean>>

\* The background task: the entrypoint answers the unpaid request. 400 is
\* posted as a validation error; 402, and 200 too, lead to the payment prompt;
\* any other ok status to the summary; anything else is thrown to the catch
\* block, which posts the error.
DiscordEntrypointAnswered(status) ==
  /\ intake.pc = "entrypoint"
  /\ intake' =
       CASE status = 400 -> [intake EXCEPT !.pc = "validationPost", !.errors = @ + 1]
         [] status \in {200, 402} -> [intake EXCEPT !.pc = "promptPost"]
         [] status = 201 -> [intake EXCEPT !.pc = "summaryPost"]
         [] OTHER -> [intake EXCEPT !.pc = "errorPost", !.errors = @ + 1]
  /\ UNCHANGED <<now, sweepDue, lastSweep, registries, searchState, botToken,
                 stores, minted, cb, gate, verifiedFor, more, clean>>

\* The validation-error follow-up is answered (its status is not looked at).
DiscordValidationAnswered(outcome) ==
  /\ intake.pc = "validationPost"
  /\ intake' =
       IF outcome = "threw"
       THEN [intake EXCEPT !.pc = "errorPost", !.errors = @ + 1]
       ELSE [intake EXCEPT !.pc = "done",
                           !.visible = IF outcome = "ok" THEN @ + 1 ELSE @]
  /\ UNCHANGED <<now, sweepDue, lastSweep, registries, searchState, botToken,
                 stores, minted, cb, gate, verifiedFor, more, clean>>

\* The platform takes the payment prompt the handler has sent and shows it in
\* the conversation; its answer is on the way to the handler, which is
\* waiting for it (await fetch / await ctx.reply).
PromptShown ==
  /\ intake.pc \in {"promptPost", "promptReply"}
  /\ ~intake.shown
  /\ intake' = [intake EXCEPT !.shown = TRUE]
  /\ UNCHANGED <<now, sweepDue, lastSweep, registries, searchState, botToken,
                 stores, minted, cb, gate, verifiedFor, more, clean>>

\* The payment prompt is answered. A refusal is logged and the task returns;
\* an ok answer, with a message id in it or not, stores the entry under
\* interaction.token.
DiscordPromptAnswered(outcome) ==
  /\ intake.pc = "promptPost"
  /\ (outcome \in {"okId", "ok"} => intake.shown)
  /\ (outcome = "notok" => ~intake.shown)
  /\ IF outcome \in {"okId", "ok"}
     THEN /\ pendingDiscordCallbacks' =
               [pendingDiscordCallbacks EXCEPT
                  ![intake.token] = DiscordEntry(outcome = "okId")]
          /\ stores' = stores + 1
          /\ intake' =
               [intake EXCEPT !.pc = "done", !.prompts = @ + 1,
                              !.visible = @ + 1, !.promptId = (outcome = "okId"),
                              !.stored = stores + 1, !.storedAt = now,
                              !.fresh = ~pendingDiscordCallbacks[intake.token].present]
     ELSE /\ intake' =
               IF outcome = "threw"
               THEN [intake EXCEPT !.pc = "errorPost", !.errors = @ + 1]
               ELSE [intake EXCEPT !.pc = "done"]
          /\ UNCHANGED <<pendingDiscordCallbacks, stores>>
  /\ UNCHANGED <<now, sweepDue, lastSweep, pendingTelegramCallbacks, searchState,
                 botToken, minted, cb, gate, verifiedFor, more, clean>>

\* The summary follow-up (an entrypoint that answered ok without asking for
\* payment) is answered; a refusal is thrown to the catch block.
DiscordSummaryAnswered(outcome) ==
  /\ intake.pc = "summaryPost"
  /\ intake' =
       IF outcome = "ok"
       THEN [intake EXCEPT !.pc = "done", !.visible = @ + 1]
       ELSE [intake EXCEPT !.pc = "errorPost", !.errors = @ + 1]
  /\ UNCHANGED <<now, sweepDue, lastSweep, registries, searchState, botToken,
                 stores, minted, cb, gate, verifiedFor, more, clean>>

\* The error follow-up of the catch block is answered; a failure is logged.
DiscordErrorAnswered(outcome) ==
  /\ intake.pc = "errorPost"
  /\ intake' =
       [intake EXCEPT !.pc = "done",
                      !.visible = IF outcome = "ok" THEN @ + 1 ELSE @]
  /\ UNCHANGED <<now, sweepDue, lastSweep, registries, searchState, botToken,
                 stores, minted, cb, gate, verifiedFor, more, clean>>

\* bot.command("summarise") and bot.command("search_events") up to their
\* first await: a command that does not validate, or has no chat id, replies
\* with the error; a valid one mints the token and replies with the prompt.
TelegramCommand(text, chat, t) ==
  LET search == text[1] = "/search_events"
      parsed == IF search THEN parseSearchEventsCommand(text)
                ELSE [error |-> extractLookback(text).error, topic |-> "",
                      location |-> ""]
      i == [IdleIntake EXCEPT !.platform = "telegram",
                              !.kind = IF search THEN "search_events"
                                       ELSE "summarise",
                              !.text = text, !.chat = chat,
                              !.run = intake.run + 1]
  IN /\ botToken
     /\ intake.pc \in {"idle", "done"}
     /\ intake.run < MaxCommands
     /\ IF parsed.error \/ chat = 0
        THEN /\ intake' = [i EXCEPT !.pc = "errorReply", !.errors = 1]
             /\ UNCHANGED minted
        ELSE /\ t \notin minted
             /\ minted' = minted \cup {t}
             /\ intake' = [i EXCEPT !.pc = "promptReply", !.token = t,
                                    !.topic = parsed.topic]
     /\ UNCHANGED <<now, sweepDue, lastSweep, registries, searchState, botToken,
                    stores, cb, gate, verifiedFor, more, clean>>

\* The error reply is answered or throws (a throw goes to bot.catch).
TelegramErrorReplied(outcome) ==
  /\ intake.pc = "errorReply"
  /\ intake' =
       [intake EXCEPT !.pc = "done",
                      !.visible = IF outcome = "ok" THEN @ + 1 ELSE @]
  /\ UNCHANGED <<now, sweepDue, lastSweep, registries, searchState, botToken,
                 stores, minted, cb, gate, verifiedFor, more, clean>>

\* The prompt reply returns the message, and the entry is stored with its
\* message_id; or it throws, and the handler ends in bot.catch.
TelegramPromptReplied(outcome) ==
  /\ intake.pc = "promptReply"
  /\ (outcome = "ok" => intake.shown)
  /\ IF outcome = "ok"
     THEN /\ pendingTelegramCallbacks' =
               [pendingTelegramCallbacks EXCEPT
                  ![intake.token] = TelegramEntry(intake.chat, intake.topic)]
          /\ stores' = stores + 1
          /\ intake' =
               [intake EXCEPT !.pc = "done", !.prompts = @ + 1,
                              !.visible = @ + 1, !.promptId = TRUE,
                              !.stored = stores + 1, !.storedAt = now,
                              !.fresh = ~pendingTelegramCallbacks[intake.token].present]
     ELSE /\ intake' = [intake EXCEPT !.pc = "done"]
          /\ UNCHANGED <<pendingTelegramCallbacks, stores>>
  /\ UNCHANGED <<now, sweepDue, lastSweep, pendingDiscordCallbacks, searchState,
                 botToken, minted, cb, gate, verifiedFor, more, clean>>

\* ----------------------------------------------------------------- cleaning

\* A text is the sequence of its lines, each named by what the patterns of
\* the cleaning chain see in it: a greeting ("Good morning! ..."), a greeting
\* behind a bullet, a "Hello! Here is what happened ..." line, a
\* "Payment Confirmed" line, a line that is one bracketed timestamp, any
\* other text, and the empty line. The empty sequence is the empty string
\* (or a missing field).
Lines == {"G", "BG", "H", "P", "TS", "T", "E"}

Texts == UNION {[1..n -> Lines] : n \in 0..MaxLines}

\* String.prototype.trim(): a text loses its leading and trailing empty lines.
RECURSIVE TrimStart(_)
TrimStart(s) ==
  IF s # <<>> /\ Head(s) = "E" THEN TrimStart(Tail(s)) ELSE s

RECURSIVE TrimEnd(_)
TrimEnd(s) ==
  IF s # <<>> /\ s[Len(s)] = "E" THEN TrimEnd(SubSeq(s, 1, Len(s) - 1)) ELSE s

Trim(s) == TrimEnd(TrimStart(s))

\* The empty string, which || and ! take for false.
Falsy(s) == s = <<>> \/ s = <<"E">>

\* replace(/^\u2022\s*(Good ...![^\n]*)/m, "$1"), without the g flag: the first
\* bulleted greeting loses its bullet.
Unbullet(s) ==
  [i \in 1..Len(s) |->
     IF s[i] = "BG" /\ \A j \in 1..(i - 1) : s[j] # "BG" THEN "G" ELSE s[i]]

\* The gm replace with the callback: every greeting line after the first is
\* replaced by the empty string, its line break staying.
DedupeGreetings(s) ==
  [i \in 1..Len(s) |->
     IF s[i] = "G" /\ \E j \in 1..(i - 1) : s[j] = "G" THEN "E" ELSE s[i]]

\* replace(/\n\n+/g, "\n\n"): a run of empty lines becomes one empty line.
RECURSIVE CollapseBlank(_)
CollapseBlank(s) ==
  IF Len(s) < 2 THEN s
  ELSE IF s[1] = "E" /\ s[2] = "E" THEN CollapseBlank(Tail(s))
  ELSE <<s[1]>> \o CollapseBlank(Tail(s))

\* replace(/^Hello!\s*Here is what happened[^\n]*\n?/im, ""): the first such
\* line goes with its line break; the last line of a text has none, so the
\* line before it keeps its own and an empty line is left.
RemoveHello(s) ==
  IF \E i \in 1..Len(s) : s[i] = "H"
  THEN LET i == CHOOSE k \in 1..Len(s) :
                  s[k] = "H" /\ \A j \in 1..(k - 1) : s[j] # "H"
       IN IF i = Len(s) /\ i > 1
          THEN [s EXCEPT ![i] = "E"]
          ELSE SubSeq(s, 1, i - 1) \o SubSeq(s, i + 1, Len(s))
  ELSE s

\* replace(/^\u2705\s*Payment (Confirmed|Required)\s*\n?\n?/gim, ""): every
\* such line goes, and with it the white space after it, empty lines
\* included.
RECURSIVE RemovePayment(_)
RemovePayment(s) ==
  IF s = <<>> THEN s
  ELSE IF Head(s) = "P" THEN RemovePayment(TrimStart(Tail(s)))
  ELSE <<Head(s)>> \o RemovePayment(Tail(s))

\* replace(/\[\d{4}-\d{2}-\d{2}T[^\]]+\]/g, ""): the stamp goes, its line
\* stays, empty.
RemoveTimestamps(s) == [i \in 1..Len(s) |-> IF s[i] = "TS" THEN "E" ELSE s[i]]

\* A preparation that posts the cleaned text as it is, empty or not.
FallbackNone(s, canned) == s

\* if (!summary) summary = <canned message>
Fallback(s, canned) == IF Falsy(s) THEN <<canned>> ELSE s

\* The steps the two summary chains share: bullet, duplicate greetings and
\* blank lines, the Hello line, the payment fragments.
CleanSummary(s) ==
  Trim(RemovePayment(RemoveHello(Trim(CollapseBlank(DedupeGreetings(Unbullet(s)))))))

\* handleDiscordCallback: output.summary to content.
DiscordContent(s) ==
  Trim(Fallback(Trim(RemoveTimestamps(CleanSummary(Fallback(s, "NoSummary")))),
                "NoUpdates"))

\* handleTelegramCallback, an entry without a topic: output.summary to
\* messageText.
TelegramSummaryText(s) == Trim(Fallback(CleanSummary(Trim(s)), "NoUpdates"))

\* handleTelegramCallback, an entry with a topic: output.formattedMessage to
\* messageText.
TelegramSearchText(s) == Fallback(Trim(s), "NoEvents")

Chains == {"discord", "telegramSummary", "telegramSearch"}

Prepared(chain, s) ==
  IF chain = "discord" THEN DiscordContent(s)
  ELSE IF chain = "telegramSummary" THEN TelegramSummaryText(s)
  ELSE TelegramSearchText(s)

\* A callback arrives with a worker output whose text is s.
CleanReceive(chain, s) ==
  /\ clean.pc = "idle"
  /\ clean' = [clean EXCEPT !.pc = "recv", !.platform = chain, !.input = s]
  /\ UNCHANGED <<now, sweepDue, lastSweep, registries, searchState, botToken,
                 stores, minted, cb, gate, verifiedFor, intake, more>>

\* The handler prepares the text and posts it.
CleanPost ==
  /\ clean.pc = "recv"
  /\ clean' = [clean EXCEPT !.pc = "posted",
                            !.once = Prepared(clean.platform, clean.input),
                            !.posted = Prepared(clean.platform, clean.input)]
  /\ UNCHANGED <<now, sweepDue, lastSweep, registries, searchState, botToken,
                 stores, minted, cb, gate, verifiedFor, intake, more>>

\* The posted text comes back as a worker output of the same chain.
CleanAgain ==
  /\ clean.pc = "posted"
  /\ clean' = [clean EXCEPT !.pc = "done",
                            !.twice = Prepared(clean.platform, clean.once)]
  /\ UNCHANGED <<now, sweepDue, lastSweep, registries, searchState, botToken,
                 stores, minted, cb, gate, verifiedFor, intake, more>>

\* --------------------------------------------------------------- pagination

\* The clock of the pagination specifications.
LongTick ==
  /\ now < MaxSearchTime
  /\ now' = now + 1
  /\ UNCHANGED <<sweepDue, lastSweep, registries, searchState, botToken, stores,
                 minted, cb, gate, verifiedFor, intake, more, clean>>

\* m is the next /more to arrive.
NextMore(m) ==
  more[m].pc = "idle" /\ \A d \in MoreIds : d < m => more[d].pc # "idle"

\* Math.min(a, b) of slice(): the slice ends with the array.
SliceEnd(a, b) == IF a < b THEN a ELSE b

\* A /more whose seen-all reply extends the expiry of the entry.
MoreStartRefreshes(m, chat) ==
  LET state == searchState[chat]
      nextOffset == state.offset + PAGE_SIZE
      i == [IdleMore EXCEPT !.chat = chat]
  IN /\ botToken
     /\ NextMore(m)
     /\ more' = [more EXCEPT ![m] =
          IF chat = 0
          THEN [i EXCEPT !.pc = "done", !.reply = "noChat"]
          ELSE IF ~state.present \/ state.expiresAt < now
          THEN [i EXCEPT !.pc = "done", !.reply = "noSearch"]
          ELSE IF nextOffset >= state.events
          THEN [i EXCEPT !.pc = "done", !.reply = "exhausted",
                         !.held = state.from, !.seen = state.offset,
                         !.total = state.events]
          ELSE [i EXCEPT !.pc = "import", !.held = state.from,
                         !.seen = state.offset, !.total = state.events,
                         !.nextOffset = nextOffset, !.lo = nextOffset,
                         !.hi = SliceEnd(nextOffset + PAGE_SIZE, state.events)]]
     /\ searchState' =
          IF chat # 0 /\ state.present /\ state.expiresAt >= now
               /\ nextOffset >= state.events
          THEN [searchState EXCEPT ![chat].expiresAt = now + SEARCH_EXPIRY]
          ELSE searchState
     /\ UNCHANGED <<now, sweepDue, lastSweep, registries, botToken, stores,
                    minted, cb, gate, verifiedFor, intake, clean>>

\* A /more that takes the page boundary for a page: > where the code has >=.
MoreStartPastEnd(m, chat) ==
  LET state == searchState[chat]
      nextOffset == state.offset + PAGE_SIZE
      i == [IdleMore EXCEPT !.chat = chat]
  IN /\ botToken
     /\ NextMore(m)
     /\ more' = [more EXCEPT ![m] =
          IF chat = 0
          THEN [i EXCEPT !.pc = "done", !.reply = "noChat"]
          ELSE IF ~state.present \/ state.expiresAt < now
          THEN [i EXCEPT !.pc = "done", !.reply = "noSearch"]
          ELSE IF nextOffset > state.events
          THEN [i EXCEPT !.pc = "done", !.reply = "exhausted",
                         !.held = state.from, !.seen = state.offset,
                         !.total = state.events]
          ELSE [i EXCEPT !.pc = "import", !.held = state.from,
                         !.seen = state.offset, !.total = state.events,
                         !.nextOffset = nextOffset, !.lo = nextOffset,
                         !.hi = SliceEnd(nextOffset + PAGE_SIZE, state.events)]]
     /\ UNCHANGED <<now, sweepDue, lastSweep, registries, searchState, botToken,
                    stores, minted, cb, gate, verifiedFor, intake, clean>>

\* bot.command("more") up to its first await: without a chat id, without a
\* pagination entry or with an expired one, and with no events left it
\* replies and returns; otherwise it slices the next page and awaits the
\* import of ./luma, holding the SearchState object it read.
MoreStart(m, chat) ==
  LET state == searchState[chat]
      nextOffset == state.offset + PAGE_SIZE
      i == [IdleMore EXCEPT !.chat = chat]
  IN /\ botToken
     /\ NextMore(m)
     /\ more' = [more EXCEPT ![m] =
          IF chat = 0
          THEN [i EXCEPT !.pc = "done", !.reply = "noChat"]
          ELSE IF ~state.present \/ state.expiresAt < now
          THEN [i EXCEPT !.pc = "done", !.reply = "noSearch"]
          ELSE IF nextOffset >= state.events
          THEN [i EXCEPT !.pc = "done", !.reply = "exhausted",
                         !.held = state.from, !.seen = state.offset,
                         !.total = state.events]
          ELSE [i EXCEPT !.pc = "import", !.held = state.from,
                         !.seen = state.offset, !.total = state.events,
                         !.nextOffset = nextOffset, !.lo = nextOffset,
                         !.hi = SliceEnd(nextOffset + PAGE_SIZE, state.events)]]
     /\ UNCHANGED <<now, sweepDue, lastSweep, registries, searchState, botToken,
                    stores, minted, cb, gate, verifiedFor, intake, clean>>

\* A /more that records the end of the slice as the offset.
MoreFinishSliceEnd(m) ==
  LET r == more[m]
  IN /\ r.pc = "import"
     /\ searchState' =
          [searchState EXCEPT ![r.chat] =
             [@ EXCEPT !.offset = r.hi, !.expiresAt = now + SEARCH_EXPIRY]]
     /\ more' = [more EXCEPT ![m] = [r EXCEPT !.pc = "done", !.reply = "page",
                                               !.wrote = TRUE]]
     /\ UNCHANGED <<now, sweepDue, lastSweep, registries, botToken, stores,
                    minted, cb, gate, verifiedFor, intake, clean>>

\* After the import: the offset and the expiry of the object the handler
\* holds are updated and the page is sent. The object is the Map's unless a
\* delivery has replaced the chat's entry in the meantime.
MoreFinish(m) ==
  LET r == more[m]
      current == searchState[r.chat].present /\ searchState[r.chat].from = r.held
  IN /\ r.pc = "import"
     /\ searchState' =
          IF current
          THEN [searchState EXCEPT ![r.chat] =
                  [@ EXCEPT !.offset = r.nextOffset,
                            !.expiresAt = now + SEARCH_EXPIRY]]
          ELSE searchState
     /\ more' = [more EXCEPT ![m] = [r EXCEPT !.pc = "done", !.reply = "page",
                                               !.wrote = current]]
     /\ UNCHANGED <<now, sweepDue, lastSweep, registries, botToken, stores,
                    minted, cb, gate, verifiedFor, intake, clean>>

\* ---------------------------------------------------------------- callbacks

\* A request reaches /discord-callback or /telegram-callback and its body is
\* read (await req.json()); a body without a token is answered 400 at once.
\* Requests are numbered in their order of arrival.
Arrived(platform, w, r) ==
  IF w[1] = "missing"
  THEN [IdleCb EXCEPT !.pc = "done", !.platform = platform, !.resp = 400]
  ELSE [IdleCb EXCEPT !.pc = "recv", !.platform = platform, !.wire = w,
                      !.result = r]

\* c is the next request to arrive.
NextCb(c) == cb[c].pc = "idle" /\ \A d \in CbIds : d < c => cb[d].pc # "idle"

CbReceive(c, platform, w, r) ==
  /\ NextCb(c)
  /\ cb' = [cb EXCEPT ![c] = Arrived(platform, w, r)]
  /\ UNCHANGED <<now, sweepDue, lastSweep, registries, searchState, botToken,
                 stores, minted, gate, verifiedFor, intake, more, clean>>

\* The request as it stands once the handler has returned `status` before any
\* platform request.
Answered(r, status) ==
  [r EXCEPT !.pc = "done", !.resp = status, !.wire = <<"missing", "">>,
            !.result = "none"]

\* The request as it stands once it holds `entry` and the raced task has
\* issued the result post.
Posting(r, t, entry) ==
  [r EXCEPT !.pc = "race", !.token = t, !.data = entry, !.post = "pending",
            !.wire = <<"missing", "">>, !.result = "none",
            !.takenAt = now, !.sweptAt = lastSweep]

\* A delete that leaves the entry in the Map.
RemovedNot(reg, t) == reg

\* Map.delete(decodedToken)
Removed(reg, t) == [reg EXCEPT ![t] = NoEntry]

\* handleDiscordCallback from the decode of the token to the await of the
\* race: get, delete, the cleaning of the summary and the fetch of the raced
\* task run without an await between them. A summary that is no string
\* makes the cleaning throw, after the delete: the outer catch answers 500.
DiscordTake(c) ==
  LET r == cb[c]
      d == decodeURIComponent(r.wire)
      entry == pendingDiscordCallbacks[d.value]
  IN /\ r.pc = "recv"
     /\ r.platform = "discord"
     /\ IF d.threw
        THEN /\ cb' = [cb EXCEPT ![c] = Answered(r, 500)]
             /\ UNCHANGED pendingDiscordCallbacks
        ELSE IF ~entry.present
        THEN /\ cb' = [cb EXCEPT ![c] = [Answered(r, 404) EXCEPT !.token = d.value]]
             /\ UNCHANGED pendingDiscordCallbacks
        ELSE /\ pendingDiscordCallbacks' = Removed(pendingDiscordCallbacks, d.value)
             /\ cb' = [cb EXCEPT ![c] =
                  IF r.result = NonText
                  THEN [Answered(r, 500) EXCEPT !.token = d.value, !.data = entry,
                                                !.takenAt = now,
                                                !.sweptAt = lastSweep]
                  ELSE Posting(r, d.value, entry)]
     /\ UNCHANGED <<now, sweepDue, lastSweep, pendingTelegramCallbacks,
                    searchState, botToken, stores, minted, gate, verifiedFor, intake, more, clean>>

\* output?.events && Array.isArray(output.events)
HasEventsArray(result) == result \in {"evEmpty", "evSome"}

\* handleTelegramCallback from the decode of the token on: get, delete, the
\* bot-token check, then either the await of the import of ./pending (a search
\* entry whose result has an events array) or the fetch of the raced task. A
\* text that is no string makes trim throw: the outer catch answers 500.
TelegramTake(c) ==
  LET r == cb[c]
      d == decodeURIComponent(r.wire)
      entry == pendingTelegramCallbacks[d.value]
  IN /\ r.pc = "recv"
     /\ r.platform = "telegram"
     /\ IF d.threw
        THEN /\ cb' = [cb EXCEPT ![c] = Answered(r, 500)]
             /\ UNCHANGED pendingTelegramCallbacks
        ELSE IF ~entry.present
        THEN /\ cb' = [cb EXCEPT ![c] = [Answered(r, 404) EXCEPT !.token = d.value]]
             /\ UNCHANGED pendingTelegramCallbacks
        ELSE /\ pendingTelegramCallbacks' =
                  Removed(pendingTelegramCallbacks, d.value)
             /\ cb' = [cb EXCEPT ![c] =
                  IF ~botToken
                  THEN [Answered(r, 500) EXCEPT !.token = d.value, !.data = entry,
                                                !.takenAt = now,
                                                !.sweptAt = lastSweep]
                  ELSE IF r.result = NonText
                  THEN [Answered(r, 500) EXCEPT !.token = d.value, !.data = entry,
                                                !.takenAt = now,
                                                !.sweptAt = lastSweep]
                  ELSE IF entry.topic # "" /\ HasEventsArray(r.result)
                  THEN [r EXCEPT !.pc = "import", !.token = d.value,
                                 !.data = entry, !.wire = <<"missing", "">>,
                                 !.takenAt = now, !.sweptAt = lastSweep]
                  ELSE Posting(r, d.value, entry)]
     /\ UNCHANGED <<now, sweepDue, lastSweep, pendingDiscordCallbacks,
                    searchState, botToken, stores, minted, gate, verifiedFor, intake, more, clean>>

\* After the import: a non-empty event list (n its length, for a result with
\* a non-empty events array) replaces the chat's pagination entry, and the
\* raced task issues the result post.
TelegramStoreSearch(c, n) ==
  LET r == cb[c] IN
  /\ r.pc = "import"
  /\ searchState' =
       IF r.result = "evSome"
       THEN [searchState EXCEPT ![r.data.chatId] =
               [present |-> TRUE, events |-> n, topic |-> r.data.topic,
                offset |-> 0, expiresAt |-> now + SEARCH_EXPIRY,
                from |-> r.data.eid]]
       ELSE searchState
  /\ cb' = [cb EXCEPT ![c] =
       [Posting(r, r.token, r.data) EXCEPT !.takenAt = r.takenAt,
                                           !.sweptAt = r.sweptAt]]
  /\ UNCHANGED <<now, sweepDue, lastSweep, registries, botToken, stores, minted, gate, verifiedFor, intake, more, clean>>

\* The raced task: the platform answers the result post. On an ok answer the
\* message is in the conversation and, when the entry has a paymentMessageId,
\* the task goes on to edit (Discord) or delete (Telegram) the prompt.
PostOk(c) ==
  LET r == cb[c] IN
  /\ r.post = "pending"
  /\ cb' = [cb EXCEPT ![c] =
       [r EXCEPT !.post = "ok",
                 !.edit = IF r.data.paymentMessageId THEN "pending" ELSE "none"]]
  /\ UNCHANGED <<now, sweepDue, lastSweep, registries, searchState, botToken,
                 stores, minted, gate, verifiedFor, intake, more, clean>>

\* A task that goes on to the clean-up of the prompt after a non-ok answer.
PostNotOkCleans(c) ==
  LET r == cb[c] IN
  /\ r.post = "pending"
  /\ cb' = [cb EXCEPT ![c] =
       [r EXCEPT !.post = "notok",
                 !.edit = IF r.data.paymentMessageId THEN "pending" ELSE "none"]]
  /\ UNCHANGED <<now, sweepDue, lastSweep, registries, searchState, botToken,
                 stores, minted, gate, verifiedFor, intake, more, clean>>

\* A non-ok answer is logged and the task returns.
PostNotOk(c) ==
  /\ cb[c].post = "pending"
  /\ cb' = [cb EXCEPT ![c].post = "notok"]
  /\ UNCHANGED <<now, sweepDue, lastSweep, registries, searchState, botToken,
                 stores, minted, gate, verifiedFor, intake, more, clean>>

\* The fetch of the result post throws: the task rejects.
PostThrow(c) ==
  /\ cb[c].post = "pending"
  /\ cb' = [cb EXCEPT ![c].post = "threw"]
  /\ UNCHANGED <<now, sweepDue, lastSweep, registries, searchState, botToken,
                 stores, minted, gate, verifiedFor, intake, more, clean>>

\* The platform answers the clean-up of the prompt, ok or not (a non-ok
\* answer is only logged).
EditDone(c) ==
  /\ cb[c].edit = "pending"
  /\ cb' = [cb EXCEPT ![c].edit = "done"]
  /\ UNCHANGED <<now, sweepDue, lastSweep, registries, searchState, botToken,
                 stores, minted, gate, verifiedFor, intake, more, clean>>

\* The fetch of the clean-up throws: the task rejects.
EditThrow(c) ==
  /\ cb[c].edit = "pending"
  /\ cb' = [cb EXCEPT ![c].edit = "threw"]
  /\ UNCHANGED <<now, sweepDue, lastSweep, registries, searchState, botToken,
                 stores, minted, gate, verifiedFor, intake, more, clean>>

\* The raced task has a platform request in flight.
TaskPending(r) == r.post = "pending" \/ r.edit = "pending"
\* The raced task threw.
TaskRejected(r) == r.post = "threw" \/ r.edit = "threw"
\* The raced task returned.
TaskResolved(r) ==
  \/ r.post = "notok"
  \/ r.post = "ok" /\ r.edit \in {"none", "done"}

\* The race is won by the task returning: the handler answers success.
RaceResolve(c) ==
  /\ cb[c].pc = "race"
  /\ TaskResolved(cb[c])
  /\ cb' = [cb EXCEPT ![c] = [@ EXCEPT !.pc = "done", !.resp = 200]]
  /\ UNCHANGED <<now, sweepDue, lastSweep, registries, searchState, botToken,
                 stores, minted, gate, verifiedFor, intake, more, clean>>

\* A catch block that reports the failed delivery to the caller.
CaughtFails(r) == [r EXCEPT !.pc = "done", !.resp = 500, !.retry = "scheduled"]

\* The catch block: the retry is scheduled (setTimeout 100 ms) and the
\* handler answers success.
Caught(r) == [r EXCEPT !.pc = "done", !.resp = 200, !.retry = "scheduled"]

\* The race is lost to the task throwing.
RaceReject(c) ==
  /\ cb[c].pc = "race"
  /\ TaskRejected(cb[c])
  /\ cb' = [cb EXCEPT ![c] = Caught(@)]
  /\ UNCHANGED <<now, sweepDue, lastSweep, registries, searchState, botToken,
                 stores, minted, gate, verifiedFor, intake, more, clean>>

\* A race without the timer: the handler goes on waiting for the task.
RaceWaits(c) ==
  /\ cb[c].pc = "race"
  /\ TaskPending(cb[c])
  /\ UNCHANGED vars

\* The race is lost to the 5 s timer; the task stays in flight.
RaceTimeout(c) ==
  /\ cb[c].pc = "race"
  /\ TaskPending(cb[c])
  /\ cb' = [cb EXCEPT ![c] = Caught(@)]
  /\ UNCHANGED <<now, sweepDue, lastSweep, registries, searchState, botToken,
                 stores, minted, gate, verifiedFor, intake, more, clean>>

\* The retry timer fires and posts the result again.
RetryFire(c) ==
  /\ cb[c].retry = "scheduled"
  /\ cb' = [cb EXCEPT ![c].retry = "pending"]
  /\ UNCHANGED <<now, sweepDue, lastSweep, registries, searchState, botToken,
                 stores, minted, gate, verifiedFor, intake, more, clean>>

\* The platform answers the retry ok: the message is in the conversation.
RetryOk(c) ==
  /\ cb[c].retry = "pending"
  /\ cb' = [cb EXCEPT ![c].retry = "ok"]
  /\ UNCHANGED <<now, sweepDue, lastSweep, registries, searchState, botToken,
                 stores, minted, gate, verifiedFor, intake, more, clean>>

\* The retry is answered non-ok or its fetch throws: nothing more is done.
RetryFail(c) ==
  /\ cb[c].retry = "pending"
  /\ cb' = [cb EXCEPT ![c].retry = "failed"]
  /\ UNCHANGED <<now, sweepDue, lastSweep, registries, searchState, botToken,
                 stores, minted, gate, verifiedFor, intake, more, clean>>

\* ------------------------------------------------------------- payment gate

\* A 402 answer that lists the requirement of every entrypoint.
ChallengeAll(g, error) ==
  [g EXCEPT !.pc = "done", !.status = 402, !.error = error,
            !.accepts = <<PaymentRequirement("summarise%20chat"),
                          PaymentRequirement("search%20luma%20events")>>]

\* The 402 answers: every one carries the requirement list.
Challenge(g, error) ==
  [g EXCEPT !.pc = "done", !.status = 402, !.error = error,
            !.accepts = <<PaymentRequirement(g.endpoint)>>]

\* A request reaches an entrypoint the gate fronts. Without a header, with a
\* header that does not decode, or with one that matches no requirement, the
\* gate answers 402; otherwise it calls the facilitator's verify.
GateRequest(endpoint, proof, t, param) ==
  LET g == [IdleGate EXCEPT !.endpoint = endpoint, !.proof = proof,
                            !.payFor = t, !.cbParam = param,
                            !.run = gate.run + 1]
  IN /\ gate.pc \in {"idle", "done"}
     /\ gate.run < MaxGateCalls
     /\ gate' =
          CASE proof = "none" -> Challenge(g, "")
            [] proof = "malformed" ->
                 Challenge(g, "Invalid or malformed payment header")
            [] proof = "mismatch" ->
                 Challenge(g, "Unable to match payment requirements")
            [] OTHER -> [g EXCEPT !.pc = "verify"]
     /\ UNCHANGED <<now, sweepDue, lastSweep, registries, searchState, botToken,
                    stores, minted, cb, verifiedFor, intake, more, clean>>

\* A gate that takes a verify that throws for a passed one.
GateVerifyThrowsForwards ==
  /\ gate.pc = "verify"
  /\ gate' = [gate EXCEPT !.verification = "threw", !.pc = "worker",
                          !.workerCalls = @ + 1]
  /\ UNCHANGED <<now, sweepDue, lastSweep, registries, searchState, botToken,
                 stores, minted, cb, verifiedFor, intake, more, clean>>

\* facilitatorClient.verify throws.
GateVerifyThrows ==
  /\ gate.pc = "verify"
  /\ gate' = Challenge([gate EXCEPT !.verification = "threw"],
                       "Failed to verify payment")
  /\ UNCHANGED <<now, sweepDue, lastSweep, registries, searchState, botToken,
                 stores, minted, cb, verifiedFor, intake, more, clean>>

\* An invalid proof that is logged and let through to the worker.
GateVerifyInvalidForwards ==
  /\ gate.pc = "verify"
  /\ gate' = [gate EXCEPT !.verification = "invalid", !.pc = "worker",
                          !.workerCalls = @ + 1]
  /\ UNCHANGED <<now, sweepDue, lastSweep, registries, searchState, botToken,
                 stores, minted, cb, verifiedFor, intake, more, clean>>

\* The facilitator answers isValid = false.
GateVerifyInvalid ==
  /\ gate.pc = "verify"
  /\ gate' = Challenge([gate EXCEPT !.verification = "invalid"], "invalidReason")
  /\ UNCHANGED <<now, sweepDue, lastSweep, registries, searchState, botToken,
                 stores, minted, cb, verifiedFor, intake, more, clean>>

\* The facilitator answers isValid = true: the request goes to the worker.
GateVerifyValid ==
  /\ gate.pc = "verify"
  /\ gate' = [gate EXCEPT !.verification = "valid", !.pc = "worker",
                          !.workerCalls = @ + 1]
  /\ verifiedFor' = verifiedFor \cup {gate.payFor}
  /\ UNCHANGED <<now, sweepDue, lastSweep, registries, searchState, botToken,
                 stores, minted, cb, intake, more, clean>>

\* A gate that settles whatever the worker answered.
GateWorkerSettles(status) ==
  /\ gate.pc = "worker"
  /\ gate' = [gate EXCEPT !.pc = "settle", !.workerStatus = status,
                          !.settleCalls = @ + 1]
  /\ UNCHANGED <<now, sweepDue, lastSweep, registries, searchState, botToken,
                 stores, minted, cb, verifiedFor, intake, more, clean>>

\* The worker answers. An error status is returned as it is; otherwise the
\* gate calls the facilitator's settle.
GateWorker(status) ==
  /\ gate.pc = "worker"
  /\ gate' =
       IF status >= 400
       THEN [gate EXCEPT !.pc = "done", !.workerStatus = status, !.status = status]
       ELSE [gate EXCEPT !.pc = "settle", !.workerStatus = status,
                         !.settleCalls = @ + 1]
  /\ UNCHANGED <<now, sweepDue, lastSweep, registries, searchState, botToken,
                 stores, minted, cb, verifiedFor, intake, more, clean>>

\* After the settlement the gate fetches /discord-callback when the request
\* names a discord_callback and the worker answered 2xx.
TriggersCallback(g) ==
  /\ g.cbParam[1] # "missing"
  /\ g.workerStatus >= 200 /\ g.workerStatus < 300
  /\ ~decodeURIComponent(g.cbParam).threw

\* A gate that lets a throwing settle fail the request.
GateSettledThrowFails(outcome, c, r) ==
  LET g == [gate EXCEPT !.settlement = outcome,
                        !.status = IF outcome = "threw" THEN 500
                                   ELSE gate.workerStatus,
                        !.receipt = (outcome = "success")]
  IN /\ gate.pc = "settle"
     /\ c = 1
     /\ r = "none"
     /\ gate' = [g EXCEPT !.pc = "done"]
     /\ UNCHANGED <<now, sweepDue, lastSweep, registries, searchState, botToken,
                    stores, minted, cb, verifiedFor, intake, more, clean>>

\* settle returns (success or not) or throws; the worker's answer is the
\* gate's, with the receipt header only after a successful settlement.
GateSettled(outcome, c, r) ==
  LET g == [gate EXCEPT !.settlement = outcome, !.status = gate.workerStatus,
                        !.receipt = (outcome = "success")]
  IN /\ gate.pc = "settle"
     /\ IF TriggersCallback(g)
        THEN /\ NextCb(c)
             /\ cb' = [cb EXCEPT ![c] =
                  Arrived("discord",
                          <<"raw", decodeURIComponent(g.cbParam).value>>, r)]
             /\ gate' = [g EXCEPT !.pc = "callback", !.cbReq = c]
        ELSE /\ c = 1
             /\ r = "none"
             /\ gate' = [g EXCEPT !.pc = "done"]
             /\ UNCHANGED cb
     /\ UNCHANGED <<now, sweepDue, lastSweep, registries, searchState, botToken,
                    stores, minted, verifiedFor, intake, more, clean>>

\* The callback request the gate made is answered: the gate returns.
GateCallbackAnswered ==
  /\ gate.pc = "callback"
  /\ cb[gate.cbReq].pc = "done"
  /\ gate' = [gate EXCEPT !.pc = "done"]
  /\ UNCHANGED <<now, sweepDue, lastSweep, registries, searchState, botToken,
                 stores, minted, cb, verifiedFor, intake, more, clean>>

\* ----------------------------------------------------------- derived counts

\* Platform requests a callback request has made.
Calls(r) ==
  (IF r.post # "none" THEN 1 ELSE 0) + (IF r.edit # "none" THEN 1 ELSE 0)
    + (IF r.retry \in {"pending", "ok", "failed"} THEN 1 ELSE 0)

\* Result messages a callback request has put in the conversation.
Sent(r) == (IF r.post = "ok" THEN 1 ELSE 0) + (IF r.retry = "ok" THEN 1 ELSE 0)

\* The request found and removed a pending entry.
Consumed(r) == r.data.present

\* ----------------------------------------------------------- specifications

Store ==
  \/ \E t \in Tokens, p \in BOOLEAN : DiscordStore(t, p)
  \/ \E t \in Tokens, c \in Chats, k \in {"", "ai"} : TelegramStore(t, c, k)

Receive(ids) ==
  \E c \in ids, p \in {"discord", "telegram"}, w \in WireTokens, r \in Results :
    CbReceive(c, p, w, r)

Take(ids) ==
  \E c \in ids :
    \/ DiscordTake(c)
    \/ TelegramTake(c)
    \/ TelegramStoreSearch(c, SomeEvents)

Post(ids) ==
  \E c \in ids :
    \/ PostOk(c)
    \/ PostNotOk(c)
    \/ PostThrow(c)
    \/ EditDone(c)
    \/ EditThrow(c)
    \/ RaceResolve(c)
    \/ RaceReject(c)
    \/ RaceTimeout(c)
    \/ RetryFire(c)
    \/ RetryOk(c)
    \/ RetryFail(c)

Deliver(ids) == Take(ids) \/ Post(ids)

\* Commands and callbacks, the clock standing still: every interleaving of
\* the deliveries with each other and with the stores.
Next ==
  \/ Store
  \/ Receive(CbIds)
  \/ Deliver(CbIds)

Spec == Init /\ [][Next]_vars

\* Commands, one callback, the clock and the reaper.
ExpiryNext ==
  \/ Tick
  \/ Sweep
  \/ Store
  \/ Receive({1})
  \/ Deliver({1})

ExpirySpec == Init /\ [][ExpiryNext]_vars

\* The discord_callback parameter of a gate request for the pay page of t.
CbParam(k, t) ==
  CASE k = "raw" -> <<"raw", t>>
    [] k = "malformed" -> <<"malformed", "%">>
    [] OTHER -> <<"missing", "">>

GateStart(params) ==
  \E e \in Endpoints, p \in Proofs, t \in Tokens, k \in params :
    GateRequest(e, p, t, CbParam(k, t))

GateRun(ids) ==
  \/ GateVerifyThrows
  \/ GateVerifyInvalid
  \/ GateVerifyValid
  \/ \E st \in WorkerStatuses : GateWorker(st)
  \/ \E o \in {"success", "failure", "threw"}, c \in ids, r \in {"none", "text"} :
       GateSettled(o, c, r)

\* The payment gate with the callback it makes itself, and the commands.
GateNext ==
  \/ Store
  \/ GateStart({"missing", "raw", "malformed"})
  \/ GateRun({1})
  \/ GateCallbackAnswered
  \/ \E c \in {1} : DiscordTake(c)
  \/ Post({1})

GateSpec == Init /\ [][GateNext]_vars

\* The pay page: it calls the gate (no discord_callback on the request) and
\* then posts the result to the callback route itself, as may anyone.
PaidNext ==
  \/ Store
  \/ GateStart({"missing"})
  \/ GateRun({1})
  \/ Receive({1})
  \/ Deliver({1})

PaidSpec == Init /\ [][PaidNext]_vars

\* The command handlers themselves, with the clock.
DiscordIntake ==
  \/ \E t \in Tokens, key \in BOOLEAN, sig \in Signatures,
        k \in {"ping", "summarise", "other"}, l \in LookbackValues,
        ch \in BOOLEAN : DiscordInteraction(t, key, sig, k, l, ch)
  \/ \E o \in {"ok", "notok", "threw"} : DiscordMissingChannelAnswered(o)
  \/ \E st \in EntrypointAnswers : DiscordEntrypointAnswered(st)
  \/ \E o \in {"ok", "notok", "threw"} : DiscordValidationAnswered(o)
  \/ \E o \in {"okId", "ok", "notok", "threw"} : DiscordPromptAnswered(o)
  \/ \E o \in {"ok", "notok", "threw"} : DiscordSummaryAnswered(o)
  \/ \E o \in {"ok", "notok", "threw"} : DiscordErrorAnswered(o)

TelegramIntake ==
  \/ \E x \in TelegramTexts, c \in Chats \cup {0}, t \in Tokens :
       TelegramCommand(x, c, t)
  \/ \E o \in {"ok", "threw"} : TelegramErrorReplied(o)
  \/ \E o \in {"ok", "threw"} : TelegramPromptReplied(o)

IntakeNext ==
  \/ PromptShown
  \/ Tick
  \/ DiscordIntake
  \/ TelegramIntake

IntakeSpec == Init /\ [][IntakeNext]_vars

\* Searches, their deliveries up to the result post, /more and the reaper.
\* The bot takes its updates from long polling one at a time, so a /more
\* arrives when no other is in progress; the callback routes are served
\* concurrently with it.
\* crypto.randomUUID() mints a token never minted before; which of the unused
\* ones is immaterial, so they are taken in order.
FreshToken == IF "t1" \notin minted THEN "t1" ELSE "t2"

SearchStore == \E c \in Chats : TelegramStore(FreshToken, c, "ai")

\* The results of a search agent: an events array, empty or not.
EventLists == {"evEmpty", "evSome"}

SearchReceive(ids) ==
  \E c \in ids, t \in Tokens, r \in EventLists :
    CbReceive(c, "telegram", <<"raw", t>>, r)

SearchTake(ids) ==
  \E c \in ids :
    \/ TelegramTake(c)
    \/ \E n \in EventCounts : TelegramStoreSearch(c, n)

MoreCommand ==
  \/ \E m \in MoreIds, c \in Chats \cup {0} :
       (\A d \in MoreIds : more[d].pc # "import") /\ MoreStart(m, c)
  \/ \E m \in MoreIds : MoreFinish(m)

MoreNext ==
  \/ LongTick
  \/ SearchStore
  \/ SearchReceive(CbIds)
  \/ SearchTake(CbIds)
  \/ MoreCommand

MoreSpec == Init /\ [][MoreNext]_vars

\* One search, its delivery and the reaper, on a clock that outlasts the
\* pagination entry.
PageSweepNext ==
  \/ LongTick
  \/ Sweep
  \/ SearchStore
  \/ SearchReceive({1})
  \/ SearchTake({1})
  \/ MoreCommand

PageSweepSpec == Init /\ [][PageSweepNext]_vars

\* The text preparation of the callback handlers on every text of the bound.
CleanNext ==
  \/ \E chain \in Chains, s \in Texts : CleanReceive(chain, s)
  \/ CleanPost
  \/ CleanAgain

CleanSpec == Init /\ [][CleanNext]_vars

\* Commands, one callback up to its removal of the entry, the clock and the
\* reaper, with time advancing and the interval timer firing. Entries are
\* stored while the clock of the model still reaches the sweep that follows
\* their expiry.
SweepHorizon == (MaxSearchTime \div REAPER_INTERVAL) * REAPER_INTERVAL

ReapStore == now + PAYMENT_CALLBACK_EXPIRY < SweepHorizon /\ Store

ReapReceive ==
  \E t \in Tokens, p \in {"discord", "telegram"}, r \in {"text", "evSome"} :
    CbReceive(1, p, <<"raw", t>>, r)

ReapNext ==
  \/ LongTick
  \/ Sweep
  \/ ReapStore
  \/ ReapReceive
  \/ Take({1})

ReapSpec == Init /\ [][ReapNext]_vars /\ WF_vars(LongTick) /\ WF_vars(Sweep)

\* One callback for a stored entry, with every shape of result, a text that
\* is no string included.
OutputReceive ==
  \E p \in {"discord", "telegram"}, t \in Tokens, r \in Results \cup {NonText} :
    CbReceive(1, p, <<"raw", t>>, r)

OutputNext ==
  \/ Store
  \/ OutputReceive
  \/ Deliver({1})

OutputSpec == Init /\ [][OutputNext]_vars

\* One search and two /more handled as concurrent tasks: a /more may arrive
\* while another awaits its import.
ConcurrentMore ==
  \/ \E m \in MoreIds, c \in Chats \cup {0} : MoreStart(m, c)
  \/ \E m \in MoreIds : MoreFinish(m)

ConcurrentMoreNext ==
  \/ LongTick
  \/ SearchStore
  \/ SearchReceive({1})
  \/ SearchTake({1})
  \/ ConcurrentMore

ConcurrentMoreSpec == Init /\ [][ConcurrentMoreNext]_vars

\* One callback with the steps the process itself takes scheduled fairly: the
\* handler's synchronous code runs, and of a race one side settles (the task
\* if the platform has answered, else the 5 s timer fires). The platform's
\* answers (PostOk, EditDone, ...) and the retry have no fairness: the platform
\* may never answer.
LiveNext ==
  \/ Store
  \/ Receive({1})
  \/ Deliver({1})

LiveSpec ==
  /\ Init
  /\ [][LiveNext]_vars
  /\ WF_vars(Take({1}))
  /\ WF_vars(RaceResolve(1) \/ RaceReject(1) \/ RaceTimeout(1))

\* ------------------------------------------------------------------- claims

\* The handler has answered and no request or timer of the delivery is left.
Finished(r) ==
  r.pc = "done" /\ ~TaskPending(r) /\ r.retry \notin {"scheduled", "pending"}

ReplayPostsOnce ==
  \A c1, c2 \in CbIds :
    ( /\ c1 < c2
      /\ cb[c1].platform = cb[c2].platform
      /\ cb[c1].token = cb[c2].token
      /\ Consumed(cb[c1]) /\ ~Consumed(cb[c2])
      /\ Finished(cb[c1]) /\ Finished(cb[c2])
      /\ cb[c1].post = "ok" /\ cb[c1].retry # "failed" )
      => Sent(cb[c1]) = 1 /\ Calls(cb[c2]) = 0

\* C3: a delivery puts at most one result message in the conversation.
AtMostOneResult == \A c \in CbIds : Sent(cb[c]) <= 1

\* C4: a result message is in the conversation for a token only if the
\* facilitator verified a payment for that token's request.
PaidBeforeDelivery ==
  \A c \in CbIds : Sent(cb[c]) > 0 => cb[c].token \in verifiedFor

\* C5: a callback whose token is in no registry is answered 404.
UnknownTokenNotFound ==
  \A c \in CbIds :
    (cb[c].pc = "done" /\ cb[c].resp # 400 /\ ~Consumed(cb[c]))
      => cb[c].resp = 404

\* C6: after a sweep no entry that had expired before it is in a registry,
\* and no callback removes such an entry.
ReapedUnreachable ==
  /\ \A t \in Tokens :
       /\ pendingDiscordCallbacks[t].present
            => pendingDiscordCallbacks[t].expiresAt >= lastSweep
       /\ pendingTelegramCallbacks[t].present
            => pendingTelegramCallbacks[t].expiresAt >= lastSweep
  /\ \A c \in CbIds :
       Consumed(cb[c]) => cb[c].data.expiresAt >= cb[c].sweptAt

\* A token the bot minted for a stored entry, the entry swept, and the one
\* callback for it answered 404.
ReapedUnreachableWitness ==
  \E c \in CbIds :
    /\ cb[c].platform = "telegram"
    /\ cb[c].token \in minted
    /\ cb[c].resp = 404
    /\ lastSweep > 0
    /\ \A d \in CbIds : ~Consumed(cb[d])

\* C7: no callback removes an entry that is expired when it arrives.
ExpiredNotTaken ==
  \A c \in CbIds : Consumed(cb[c]) => ~(cb[c].data.expiresAt < cb[c].takenAt)

\* C8: the worker is invoked only after the facilitator has answered
\* isValid = true; every other path ends with 402 and the worker not invoked.
WorkerOnlyAfterVerify ==
  /\ gate.workerCalls > 0 => (gate.proof = "good" /\ gate.verification = "valid")
  /\ (gate.pc = "done" /\ (gate.proof # "good" \/ gate.verification # "valid"))
       => gate.status = 402 /\ gate.workerCalls = 0

\* A proof the facilitator found invalid, answered 402.
WorkerOnlyAfterVerifyWitness ==
  gate.pc = "done" /\ gate.verification = "invalid" /\ gate.status = 402

\* C9: a request without a proof is answered 402 with exactly one
\* requirement, the one built for the request's entrypoint, and no registry
\* and no pagination entry changes.
ChallengeOnNoProof ==
  [][(gate'.run # gate.run /\ gate'.proof = "none")
       => /\ gate'.pc = "done"
          /\ gate'.status = 402
          /\ Len(gate'.accepts) = 1
          /\ gate'.accepts[1] = PaymentRequirement(gate'.endpoint)
          /\ UNCHANGED <<registries, searchState>>]_vars

\* A challenge answered while an entry is pending.
ChallengeOnNoProofWitness ==
  /\ gate.pc = "done" /\ gate.proof = "none" /\ gate.status = 402
  /\ \E t \in Tokens : pendingDiscordCallbacks[t].present

\* C10: settle is called at most once per request, only after a valid
\* verification and a worker answer below 400; a worker error is returned
\* as it is, unsettled.
SettleAfterWorkerOk ==
  /\ gate.settleCalls <= 1
  /\ gate.settleCalls > 0
       => /\ gate.verification = "valid"
          /\ gate.workerCalls = 1
          /\ gate.workerStatus < 400
  /\ (gate.pc = "done" /\ gate.workerStatus >= 400)
       => gate.settleCalls = 0 /\ gate.status = gate.workerStatus

\* A worker error returned after a valid verification.
SettleAfterWorkerOkWitness ==
  /\ gate.pc = "done" /\ gate.verification = "valid"
  /\ gate.workerStatus = 500 /\ gate.status = 500

\* C11: once the worker has succeeded after a valid verification, the gate
\* answers with the worker's status whether settle returned success, returned
\* failure or threw, and the answer carries the X-PAYMENT-RESPONSE receipt
\* if and only if settle returned success.
ResultDespiteSettlement ==
  (gate.pc \in {"callback", "done"} /\ gate.settleCalls > 0)
    => /\ gate.status = gate.workerStatus
       /\ gate.receipt <=> (gate.settlement = "success")

\* The worker's 200 returned without a receipt after settle threw.
ResultDespiteSettlementWitness ==
  /\ gate.pc = "done" /\ gate.settlement = "threw"
  /\ gate.status = 200 /\ ~gate.receipt

\* C12: a delivery whose result post the platform refused, whose post threw
\* or whose post outlasted the 5 s budget has a retry scheduled by the time
\* the handler answers, and a delivery posts the result at most twice.
RetryOnceOnFailure ==
  \A c \in CbIds :
    /\ (cb[c].pc = "done" /\ cb[c].post \in {"pending", "notok", "threw"})
         => cb[c].retry # "none"
    /\ (IF cb[c].post # "none" THEN 1 ELSE 0)
         + (IF cb[c].retry \in {"pending", "ok", "failed"} THEN 1 ELSE 0) <= 2

CallbackReturns ==
  \A c \in CbIds : (cb[c].pc \in {"recv", "import", "race"}) ~> (cb[c].pc = "done")

\* Answered while the post is still unanswered and the retry has not fired.
CallbackReturnsWitness ==
  \E c \in CbIds :
    /\ cb[c].pc = "done" /\ cb[c].resp = 200
    /\ cb[c].post = "pending" /\ cb[c].retry = "scheduled"

\* C15: when the clean-up of the payment prompt throws, the handler's answer
\* schedules no retry of the result post.
PromptFailureLogOnly ==
  [][\A c \in CbIds :
       (cb[c].pc = "race" /\ cb[c].edit = "threw" /\ cb'[c].pc = "done")
         => cb'[c].retry = "none"]_vars

\* C17: when the worker has answered a verified request with an error
\* status, the gate's answer is accompanied by a message to the chat: a
\* callback request has been made and has sent a platform request.
WorkerFailureSurfaced ==
  (gate.pc = "done" /\ gate.verification = "valid" /\ gate.workerStatus >= 400)
    => \E c \in CbIds : Calls(cb[c]) > 0

\* C16: when the background task of a deferred Discord interaction has
\* ended, a follow-up has been sent for it: Discord has accepted a message of
\* the task, or the task has at least posted an error message.
DeferredResolved ==
  (intake.response = "deferred" /\ intake.pc = "done")
    => (intake.visible >= 1 \/ intake.errors >= 1)

\* A /search_events text without a topic: no "on", or nothing after it.
MissingTopic(text) ==
  LET o == FirstIndex(text, "on")
  IN o = 0 \/ o = Len(text) \/ text[o + 1] = "in"

\* The command as it arrived fails validation: minutes out of range or not a
\* number, no topic, or no channel / chat id.
FailsValidation(i) ==
  \/ /\ i.platform = "discord" /\ i.kind = "summarise" /\ i.response # "401"
     /\ (i.lookback \in {"0", "abc"} \/ ~i.channel)
  \/ /\ i.platform = "telegram" /\ i.kind = "summarise"
     /\ ((Len(i.text) >= 2 /\ i.text[2] \in {"0", "abc"}) \/ i.chat = 0)
  \/ /\ i.platform = "telegram" /\ i.kind = "search_events"
     /\ (MissingTopic(i.text) \/ i.chat = 0)

\* C18: a command that fails validation is answered with an error message
\* and is neither deferred nor sent on to the entrypoint or to a payment
\* prompt; no token is minted and no entry stored for it (after a first
\* command that failed validation the registries are still empty).
InvalidCommandRejected ==
  FailsValidation(intake)
    => /\ intake.errors >= 1
       /\ intake.response # "deferred"
       /\ intake.pc \in {"missingChannel", "errorReply", "done"}
       /\ intake.prompts = 0
       /\ intake.stored = 0
       /\ intake.platform = "telegram" => intake.token = ""
       /\ intake.run = 1 =>
            /\ minted = {}
            /\ \A t \in Tokens : /\ ~pendingDiscordCallbacks[t].present
                                  /\ ~pendingTelegramCallbacks[t].present

\* A /search_events without a topic, its error reply accepted by Telegram.
InvalidCommandRejectedWitness ==
  /\ intake.pc = "done" /\ intake.kind = "search_events" /\ intake.chat # 0
  /\ MissingTopic(intake.text) /\ intake.visible = 1

\* C19: handleDiscordInteraction has awaited no network request when it
\* returns its response.
AckWithoutNetworkWait ==
  (intake.platform = "discord" /\ intake.response # "none") => intake.awaited = 0

\* C20: a command whose payment prompt the platform accepted has sent that
\* one prompt and stored one entry, under its token, which was fresh (no
\* entry stood under it); the entry expires the TTL after the time of
\* storing and holds the command's parameters and the prompt's message id.
ValidCommandStored ==
  (intake.pc = "done" /\ intake.prompts > 0)
    => LET e == IF intake.platform = "discord"
                THEN pendingDiscordCallbacks[intake.token]
                ELSE pendingTelegramCallbacks[intake.token]
       IN /\ intake.prompts = 1
          /\ e.present
          /\ e.eid = intake.stored
          /\ e.expiresAt = intake.storedAt + PAYMENT_CALLBACK_EXPIRY
          /\ e.chatId = intake.chat /\ e.topic = intake.topic
          /\ e.paymentMessageId = intake.promptId
          /\ intake.fresh

\* The request has issued the result post for a search entry (one with a
\* topic) it took from the Telegram registry.
SearchDelivered(r) ==
  r.platform = "telegram" /\ r.post # "none" /\ r.data.present /\ r.data.topic # ""

\* C21: once a delivery has been issued for a pending entry that carries a
\* topic, the conversation of the entry has a pagination entry, whatever the
\* worker's output held.
SearchMaterialized ==
  \A c \in CbIds :
    SearchDelivered(cb[c]) => searchState[cb[c].data.chatId].present

\* C22: a search delivery replaces the conversation's pagination entry: on
\* the step that issues the delivery, the entry a later /more of the
\* conversation reads, if any, is the one of this search at offset 0, never
\* one an earlier search left.
SearchReplaces ==
  [][\A c \in CbIds :
       (~SearchDelivered(cb[c]) /\ SearchDelivered(cb'[c])
          /\ searchState'[cb'[c].data.chatId].present)
         => /\ searchState'[cb'[c].data.chatId].from = cb'[c].data.eid
            /\ searchState'[cb'[c].data.chatId].offset = 0]_vars

\* The /more has read a pagination entry that was present and not expired.
Served(r) == r.pc = "import" \/ r.reply \in {"page", "exhausted"}

\* C23: the offset of a pagination entry never decreases and changes only by
\* the page size, and a /more that finds a live entry with no events past
\* the next offset is answered with the seen-all reply and changes nothing.
MoreMonotonic ==
  [][/\ \A c \in Chats :
          (searchState[c].present /\ searchState'[c].present
             /\ searchState'[c].from = searchState[c].from)
            => searchState'[c].offset \in
                 {searchState[c].offset, searchState[c].offset + PAGE_SIZE}
     /\ \A m \in MoreIds :
          (more[m].pc = "idle" /\ more'[m].pc # "idle" /\ more'[m].chat # 0
             /\ searchState[more'[m].chat].present
             /\ searchState[more'[m].chat].expiresAt >= now
             /\ searchState[more'[m].chat].offset + PAGE_SIZE
                  >= searchState[more'[m].chat].events)
            => /\ more'[m].reply = "exhausted"
               /\ searchState' = searchState]_vars

\* Pages of one search were sent until a /more found none left.
MoreMonotonicWitness ==
  \E m1, m2 \in MoreIds :
    /\ more[m1].reply = "page" /\ more[m1].wrote
    /\ more[m2].reply = "exhausted" /\ more[m2].held = more[m1].held
    /\ searchState[more[m2].chat].offset = PAGE_SIZE

\* The number of the /more among those served from the entry it read.
Kth(m) ==
  1 + Cardinality({d \in MoreIds : d < m /\ Served(more[d])
                                     /\ more[d].held = more[m].held})

\* C24: the k-th /more served from a search of n events sends
\* events[5k : 5k+5] and sets the offset to 5k when 5k < n and sends the
\* seen-all reply otherwise; the offset of a stored entry is 5 times the
\* number of pages sent from it.
MorePages ==
  /\ \A m \in MoreIds :
       Served(more[m])
         => LET r == more[m]
                k == Kth(m)
            IN IF PAGE_SIZE * k < r.total
               THEN /\ r.reply # "exhausted"
                    /\ r.lo = PAGE_SIZE * k
                    /\ r.hi = SliceEnd(PAGE_SIZE * k + PAGE_SIZE, r.total)
                    /\ r.nextOffset = PAGE_SIZE * k
               ELSE r.reply = "exhausted"
  /\ \A c \in Chats :
       searchState[c].present
         => searchState[c].offset =
              PAGE_SIZE * Cardinality({m \in MoreIds :
                                        /\ more[m].reply = "page"
                                        /\ more[m].wrote
                                        /\ more[m].held = searchState[c].from})

\* The second /more of a search of 11 events sent events[10:11].
MorePagesWitness ==
  \E m \in MoreIds :
    /\ more[m].reply = "page" /\ more[m].wrote
    /\ more[m].lo = 10 /\ more[m].hi = 11 /\ more[m].total = 11
    /\ searchState[more[m].chat].offset = 10

\* C30: the reaper expires pagination entries as it does pending entries:
\* after a sweep no pagination entry that had expired before it is stored.
PaginationSwept ==
  \A c \in Chats :
    searchState[c].present => searchState[c].expiresAt >= lastSweep

\* C28: a store under a token that has an entry leaves the entry as it is:
\* no step replaces a stored entry by another.
NeverOverwritten ==
  [][\A t \in Tokens :
       /\ (pendingDiscordCallbacks[t].present /\ pendingDiscordCallbacks'[t].present)
            => pendingDiscordCallbacks'[t] = pendingDiscordCallbacks[t]
       /\ (pendingTelegramCallbacks[t].present /\ pendingTelegramCallbacks'[t].present)
            => pendingTelegramCallbacks'[t] = pendingTelegramCallbacks[t]]_vars

\* C29: a token whose entry a callback has removed has no entry again.
NeverReinserted ==
  \A c \in CbIds :
    Consumed(cb[c])
      => /\ cb[c].platform = "discord" => ~pendingDiscordCallbacks[cb[c].token].present
         /\ cb[c].platform = "telegram" => ~pendingTelegramCallbacks[cb[c].token].present

\* A greeting line, behind a bullet or not.
Greetings(s) == Cardinality({i \in 1..Len(s) : s[i] \in {"G", "BG"}})

\* C25: the text preparation is idempotent on both summary chains: preparing
\* a prepared text returns it unchanged.
CleanIdempotent ==
  (clean.pc = "done" /\ clean.platform \in {"discord", "telegramSummary"})
    => clean.twice = clean.once

\* C26: a summary with at least one greeting line, bulleted or not, is
\* posted with exactly one greeting line.
OneGreeting ==
  (clean.pc \in {"posted", "done"}
     /\ clean.platform \in {"discord", "telegramSummary"}
     /\ Greetings(clean.input) >= 1)
    => Greetings(clean.posted) = 1

\* C27: the text a delivery posts is never empty.
PostedNonEmpty ==
  clean.pc \in {"posted", "done"}
    => \E i \in 1..Len(clean.posted) : clean.posted[i] # "E"

\* A text that cleans to nothing was posted as the canned message.
PostedNonEmptyWitness ==
  /\ clean.pc = "done"
  /\ clean.platform = "discord"
  /\ clean.input = <<"P", "E", "TS">>
  /\ clean.posted = <<"NoUpdates">>

\* C31: a sweep at time now removes from both pending registries the
\* entries with expiresAt < now and no other, an entry with expiresAt = now
\* included, and leaves the pagination map as it is.
SweepExact ==
  [][sweepDue' # sweepDue
       => /\ \A t \in Tokens :
               /\ pendingDiscordCallbacks'[t] =
                    IF pendingDiscordCallbacks[t].present
                         /\ pendingDiscordCallbacks[t].expiresAt < now
                    THEN NoEntry ELSE pendingDiscordCallbacks[t]
               /\ pendingTelegramCallbacks'[t] =
                    IF pendingTelegramCallbacks[t].present
                         /\ pendingTelegramCallbacks[t].expiresAt < now
                    THEN NoEntry ELSE pendingTelegramCallbacks[t]
          /\ searchState' = searchState]_vars

\* A sweep has left an entry that expires at the time of the sweep, beside a
\* pagination entry.
SweepExactWitness ==
  /\ lastSweep > 0
  /\ \E t \in Tokens :
       /\ pendingDiscordCallbacks[t].present
       /\ pendingDiscordCallbacks[t].expiresAt = lastSweep
  /\ \E c \in Chats : searchState[c].present

\* C32: with time advancing and the reaper firing, no token keeps an entry
\* for ever: each stored entry is removed, by a delivery or by a sweep.
EntryRemoved ==
  \A t \in Tokens :
    /\ pendingDiscordCallbacks[t].present ~> ~pendingDiscordCallbacks[t].present
    /\ pendingTelegramCallbacks[t].present ~> ~pendingTelegramCallbacks[t].present

\* Entries were stored, none was delivered, and the reaper has emptied the
\* registries.
EntryRemovedWitness ==
  /\ stores = MaxStores
  /\ lastSweep > 0
  /\ \A c \in CbIds : ~Consumed(cb[c])
  /\ \A t \in Tokens :
       ~pendingDiscordCallbacks[t].present /\ ~pendingTelegramCallbacks[t].present

\* C33: a Discord interaction whose signature is missing or invalid is
\* rejected before anything is done with it, whatever the configuration: it
\* is answered 401, posts no follow-up and stores no entry.
BadSignatureRejected ==
  (intake.platform = "discord" /\ intake.signature \in {"missing", "invalid"})
    => /\ intake.pc = "done"
       /\ intake.response = "401"
       /\ intake.visible = 0 /\ intake.errors = 0 /\ intake.prompts = 0
       /\ intake.stored = 0

\* C34: a gate request whose payment is not verified (malformed proof, no
\* matching requirement, verify throwing or answering invalid) does nothing
\* but answer its caller 402: none of its steps starts a callback, posts to a
\* conversation or touches a pending or pagination entry.
GateFailureLocal ==
  [][(gate' # gate /\ gate'.verification # "valid")
       => /\ cb' = cb
          /\ pendingDiscordCallbacks' = pendingDiscordCallbacks
          /\ pendingTelegramCallbacks' = pendingTelegramCallbacks
          /\ searchState' = searchState
          /\ gate'.workerCalls = 0
          /\ (gate'.pc = "done" => gate'.status = 402)]_vars

\* A request naming the callback of a stored entry was answered 402 after
\* verify threw; the entry is in the registry.
GateFailureLocalWitness ==
  /\ gate.pc = "done" /\ gate.status = 402
  /\ gate.verification = "threw"
  /\ gate.cbParam[1] = "raw"
  /\ pendingDiscordCallbacks[gate.payFor].present
  /\ \A c \in CbIds : cb[c].pc = "idle"

\* Topics and places: one or more words, none of them a keyword.
Names == UNION {[1..n -> Words \ {"on", "in"}] : n \in 1..MaxWords}

\* The command forms the /start help lists.
Advertised(text) ==
  \E a, b \in Names :
    \/ text = <<"/search_events", "on">> \o a
    \/ text = <<"/search_events", "in">> \o a
    \/ text = <<"/search_events", "on">> \o a \o <<"in">> \o b

\* C35: a /search_events command in one of the forms the /start help lists
\* (on <topic>, in <place>, on <topic> in <place>), sent from a chat, is taken
\* as a search: it is not answered with a usage error.
AdvertisedAccepted ==
  (intake.platform = "telegram" /\ intake.kind = "search_events"
     /\ intake.chat # 0 /\ Advertised(intake.text))
    => intake.errors = 0

\* C36: a callback that removed an entry goes on to the result post: none
\* has returned with the entry removed and no post issued.
TakenIsPosted ==
  \A c \in CbIds :
    (cb[c].pc = "done" /\ Consumed(cb[c])) => cb[c].post # "none"

\* C37: while a payment prompt is in the conversation, the entry of its
\* token is stored (no callback or sweep takes part here, so nothing has
\* removed it).
PromptHasEntry ==
  intake.shown
    => IF intake.platform = "discord"
       THEN pendingDiscordCallbacks[intake.token].present
       ELSE pendingTelegramCallbacks[intake.token].present

MoreFrame ==
  [][/\ \A m \in MoreIds :
          (more[m].pc = "idle"
             /\ more'[m].reply \in {"noChat", "noSearch", "exhausted"})
            => searchState' = searchState
     /\ \A c \in Chats :
          (searchState[c].present /\ searchState'[c] # searchState[c]
             /\ searchState'[c].from = searchState[c].from)
            => \E m \in MoreIds :
                 /\ more[m].pc = "import" /\ more'[m].reply = "page"
                 /\ more'[m].chat = c]_vars

\* A /more found the entry expired and a /more found no events left: the
\* entry is stored as the last page left it.
MoreFrameWitness ==
  \E m1, m2 \in MoreIds :
    /\ more[m1].reply = "page" /\ more[m1].wrote
    /\ more[m2].reply = "noSearch" /\ more[m2].chat = more[m1].chat
    /\ searchState[more[m1].chat].from = more[m1].held
    /\ searchState[more[m1].chat].offset = more[m1].nextOffset
    /\ searchState[more[m1].chat].expiresAt < now

\* C40: the payment prompt is edited (Discord) or deleted (Telegram) only
\* after the platform has accepted the result post: a clean-up request has
\* been issued only by a callback whose post was answered ok.
CleanupAfterPost ==
  \A c \in CbIds : cb[c].edit # "none" => cb[c].post = "ok"

\* A prompt was cleaned up after its result was posted, and the prompt of a
\* callback whose post was refused was left alone.
CleanupAfterPostWitness ==
  \E c1, c2 \in CbIds :
    /\ cb[c1].post = "ok" /\ cb[c1].edit = "done"
    /\ cb[c2].post = "notok" /\ cb[c2].data.paymentMessageId
    /\ cb[c2].edit = "none" /\ cb[c2].pc = "done"

====
